---- MODULE Spec2Model ----
(***************************************************************************)
(* node-speex-resampler: the bindings around the Speex resampler and the   *)
(* Transform streams that feed them.  The repository holds several         *)
(* revisions of the binding:                                               *)
(*   wasmAsync  app/index.js            async processChunk, _processing    *)
(*   wasmSync   unnamed/part_001        sync processChunk, initPromise     *)
(*   native     src/index.js 1-63 with src/resampler.cc (N-API, workers)   *)
(*   native2    src/index.js 65-105, unnamed/part_005 (ObjectWrap class)   *)
(* and several revisions of SpeexResamplerTransform (slice, copy, rev2,    *)
(* bare).  A behaviour of the model runs one revision, chosen in Init.     *)
(***************************************************************************)
EXTENDS Integers, Sequences, FiniteSets, TLC

\* ------------------------------------------------------------------ bounds
MaxLen == 4
MaxCalls == 2
PoolSize == 2

\* Values a caller may pass to the constructors.
ChannelArgs == {0, 1, 2}
RateArgs == {0, 1, 2}
QualityValues == {5, 11}
Lens == 0 .. MaxLen
Inst == {"r1"}

\* ------------------------------------------------------- program constants
BYTES_PER_ELEMENT == 2
DEFAULT_QUALITY == 7
ERRPTR_SIZE == 4
MIN_QUALITY == 1
MAX_QUALITY == 10
RESAMPLER_ERR_SUCCESS == 0
RESAMPLER_ERR_INVALID_ARG == 3
UINT32_BYTES == 4

\* ------------------------------------------------------------------ helpers
\* A JavaScript argument is <<v>> for the number v and <<>> for undefined.
Undefined == <<>>
Num(v) == <<v>>
QualityArgs == {Undefined} \cup {Num(q) : q \in QualityValues}

Min(a, b) == IF a < b THEN a ELSE b

\* Math.ceil(a / b) for a >= 0, b >= 1
Ceil(a, b) == (a + b - 1) \div b

RECURSIVE Gcd(_, _)
Gcd(a, b) == IF b = 0 THEN a ELSE Gcd(b, a % b)

\* chunk.length % (channels * 2) !== 0 in JavaScript: x % 0 is NaN, and
\* NaN !== 0 is true.
Misaligned(len, channels) ==
    LET m == channels * BYTES_PER_ELEMENT
    IN  IF m = 0 THEN TRUE ELSE len % m # 0

\* speexModule._malloc: the lowest address that is not live.  A block of
\* the heap is its size and data, the number of times it was written.
malloc(h, size) ==
    LET p == CHOOSE q \in 1 .. (Cardinality(DOMAIN h) + 1) :
                 /\ q \notin DOMAIN h
                 /\ \A q2 \in 1 .. (q - 1) : q2 \in DOMAIN h
    IN  [ptr |-> p,
         heap |-> [a \in (DOMAIN h) \cup {p} |->
                      IF a = p THEN [size |-> size, data |-> 0] ELSE h[a]]]

\* speexModule._free
free(h, p) == [a \in (DOMAIN h) \ {p} |-> h[a]]

EmptyHeap == [a \in {} |-> 0]

\* -------------------------------------------------------- the Speex engine
\* speex_resampler_init: the error code for a configuration.
speex_init_err(nb_channels, in_rate, out_rate, quality) ==
    IF \/ nb_channels < 1
       \/ in_rate < 1
       \/ out_rate < 1
       \/ quality < MIN_QUALITY
       \/ quality > MAX_QUALITY
    THEN RESAMPLER_ERR_INVALID_ARG
    ELSE RESAMPLER_ERR_SUCCESS

\* The SpeexResamplerState of a successful speex_resampler_init.  pos is the
\* read position carried between calls, in units of 1/den_rate input frames.
speex_new_state(nb_channels, in_rate, out_rate, quality) ==
    [nb_channels |-> nb_channels, in_rate |-> in_rate, out_rate |-> out_rate,
     quality |-> quality,
     num_rate |-> in_rate \div Gcd(in_rate, out_rate),
     den_rate |-> out_rate \div Gcd(in_rate, out_rate),
     pos |-> 0]

RECURSIVE speex_walk(_, _, _, _, _)
speex_walk(st, pos, out, in_len, out_len) ==
    IF pos \div st.den_rate >= in_len \/ out >= out_len
    THEN [pos |-> pos, out |-> out]
    ELSE speex_walk(st, pos + st.num_rate, out + 1, in_len, out_len)

\* speex_resampler_process_interleaved_int: in_len frames offered, room for
\* out_len frames; the code returned, the frames consumed and written, and
\* the state after.  On an initialised state the engine does not fail.
speex_process(st, in_len, out_len) ==
    LET w == speex_walk(st, st.pos, 0, in_len, out_len)
        used == Min(in_len, w.pos \div st.den_rate)
    IN  [errNum |-> RESAMPLER_ERR_SUCCESS,
         in_len |-> used, out_len |-> w.out,
         st |-> [st EXCEPT !.pos = w.pos - used * st.den_rate]]

\* ------------------------------------------------------------------- state
VARIABLES
    variant,      \* the revision of the binding this behaviour runs
    stream,       \* the revision of SpeexResamplerTransform in front of it
    moduleState,  \* globalModulePromise: "loading", "loaded" or "failed"
    inst,         \* the SpeexResampler objects and their fields
    heap,         \* WASM allocations made through speexModule._malloc
    speexStates,  \* SpeexResamplerState objects; a handle is an index
    pending,      \* per instance, the calls suspended at `await`
    ret,          \* per instance, how the latest processChunk call began
    fin,          \* per instance, how the latest accepted call ended
    lastCreate,   \* the latest createResampler call and how it ended
    ncalls,       \* processChunk calls made so far
    workers,      \* ResamplerWorker objects of the native binding
    tr,           \* the SpeexResamplerTransform object
    written,      \* number of bytes written to the stream
    passed,       \* the buffers _transform handed to processChunk
    gc            \* what the program dropped and the collector reclaimed

vars == <<variant, stream, moduleState, inst, heap, speexStates, pending, ret,
          fin, lastCreate, ncalls, workers, tr, written, passed, gc>>

IsWasm == variant \in {"wasmAsync", "wasmSync"}

NoInstance ==
    [exists |-> FALSE, channels |-> 0, inRate |-> 0, outRate |-> 0,
     quality |-> 0, _processing |-> FALSE, _resamplerPtr |-> 0,
     _inBufferPtr |-> -1, _inBufferSize |-> -1,
     _outBufferPtr |-> -1, _outBufferSize |-> -1,
     _inLengthPtr |-> -1, _outLengthPtr |-> -1]

\* constructor(channels, inRate, outRate, quality = 7) of the WASM bindings
WasmConstructor(channels, inRate, outRate, quality) ==
    [NoInstance EXCEPT
        !.exists = TRUE,
        !.channels = channels,
        !.inRate = inRate,
        !.outRate = outRate,
        !.quality = IF quality = Undefined THEN DEFAULT_QUALITY ELSE quality[1]]

\* ------------------------------------------------ SpeexResamplerTransform
\* NaN is written as -1: no length or remainder is negative.
NaN == 0 - 1

\* a % b of JavaScript for a >= 0, b >= 0
JsMod(a, b) == IF b = 0 THEN NaN ELSE a % b

\* a - b of JavaScript
JsSub(a, b) == IF a = NaN \/ b = NaN THEN NaN ELSE a - b

\* an offset argument of Buffer.slice, subarray and copy: NaN counts as 0
Offset(x) == IF x = NaN THEN 0 ELSE x

\* x > 0 of JavaScript
Positive(x) == x # NaN /\ x > 0

\* buf.slice(start, end) and buf.subarray(start, end), 0 <= start, end <= length
Slice(buf, start, end) == SubSeq(buf, Offset(start) + 1, Offset(end))

\* source.copy(target, 0, sourceStart): target afterwards
BufCopy(source, target, sourceStart) ==
    LET n == Min(Len(target), Len(source) - Offset(sourceStart))
    IN  SubSeq(source, Offset(sourceStart) + 1, Offset(sourceStart) + n)
            \o SubSeq(target, n + 1, Len(target))

NoTransform ==
    [exists |-> FALSE, channels |-> 0, _alignementBuffer |-> <<>>,
     _alignementBufferLength |-> 0, busy |-> FALSE, cbErr |-> "none",
     ncb |-> 0, ended |-> FALSE]

\* Buffer.alloc(size): size zero bytes
BufferAlloc(size) == [k \in 1 .. size |-> 0]

\* the constructors of SpeexResamplerTransform, after the resampler is built
TransformConstructor(flavour, channels) ==
    [NoTransform EXCEPT
        !.exists = TRUE,
        !.channels = channels,
        !._alignementBuffer =
            IF flavour \in {"copy", "rev2"}
            THEN BufferAlloc(channels * BYTES_PER_ELEMENT)
            ELSE <<>>]

\* transform_slice keeping the bytes after the first extraneousBytesCount
\* ones instead of the last extraneousBytesCount ones
transform_slice_wrongOffset(t, chunk) ==
    LET c0 == IF Len(t._alignementBuffer) > 0 THEN t._alignementBuffer \o chunk ELSE chunk
        extraneousBytesCount == JsMod(Len(c0), t.channels * BYTES_PER_ELEMENT)
    IN  IF extraneousBytesCount # 0
        THEN [t |-> [t EXCEPT !._alignementBuffer =
                        Slice(c0, extraneousBytesCount, Len(c0))],
              handed |-> Slice(c0, 0, JsSub(Len(c0), extraneousBytesCount))]
        ELSE [t |-> [t EXCEPT !._alignementBuffer = <<>>], handed |-> c0]

\* _transform of the slice-based revisions up to the processChunk call:
\* the transform afterwards and the buffer handed to processChunk
transform_slice(t, chunk) ==
    LET c0 == IF Len(t._alignementBuffer) > 0 THEN t._alignementBuffer \o chunk ELSE chunk
        extraneousBytesCount == JsMod(Len(c0), t.channels * BYTES_PER_ELEMENT)
    IN  IF extraneousBytesCount # 0
        THEN [t |-> [t EXCEPT !._alignementBuffer =
                        Slice(c0, JsSub(Len(c0), extraneousBytesCount), Len(c0))],
              handed |-> Slice(c0, 0, JsSub(Len(c0), extraneousBytesCount))]
        ELSE [t |-> [t EXCEPT !._alignementBuffer = <<>>], handed |-> c0]

\* _transform of the copy-based revisions up to the processChunk call: the
\* transform afterwards, the aligned chunkToProcess and the chunk as written
transform_copy(t, chunk) ==
    LET had == Positive(t._alignementBufferLength)
        c0 == IF had
              THEN SubSeq(t._alignementBuffer, 1, t._alignementBufferLength) \o chunk
              ELSE chunk
        len0 == IF had THEN 0 ELSE t._alignementBufferLength
        extraneousBytesCount == JsMod(Len(c0), t.channels * BYTES_PER_ELEMENT)
    IN  IF extraneousBytesCount # 0
        THEN [t |-> [t EXCEPT
                        !._alignementBuffer =
                            BufCopy(c0, t._alignementBuffer, extraneousBytesCount),
                        !._alignementBufferLength = extraneousBytesCount],
              chunkToProcess |-> Slice(c0, 0, JsSub(Len(c0), extraneousBytesCount)),
              chunk |-> chunk]
        ELSE [t |-> [t EXCEPT !._alignementBufferLength = len0],
              chunkToProcess |-> c0,
              chunk |-> chunk]

\* first native revision and part_000: processChunk(chunkToProcess)
transform_copy_handed(t, chunk) ==
    [t |-> transform_copy(t, chunk).t, handed |-> transform_copy(t, chunk).chunkToProcess]

\* second native revision: processChunk(chunk)
transform_rev2(t, chunk) ==
    [t |-> transform_copy(t, chunk).t, handed |-> transform_copy(t, chunk).chunk]

\* the transform without alignment: processChunk(chunk)
transform_bare(t, chunk) == [t |-> t, handed |-> chunk]

_transform(flavour, t, chunk) ==
    CASE flavour = "slice" -> transform_slice(t, chunk)
      [] flavour = "copy"  -> transform_copy_handed(t, chunk)
      [] flavour = "rev2"  -> transform_rev2(t, chunk)
      [] OTHER             -> transform_bare(t, chunk)

\* callback(e) or callback(null, res): the transform is ready for the next
\* chunk; ncb counts the invocations made by the _transform call in hand
callback(t, err) == [t EXCEPT !.busy = FALSE, !.cbErr = err, !.ncb = @ + 1]

\* tryCallback with a catch clause that swallows the error
tryCallback_noCallbackOnError(t, err, throws) ==
    IF err = "ok" THEN callback(t, "ok") ELSE t

\* The try block of _transform once processChunk has ended with err.
\* callback(null, res) pushes res to the readable side, whose 'data'
\* listeners run inside the call: when one throws, the exception leaves
\* callback(null, res) inside the try block and the catch clause calls
\* callback(e).  An exception leaving callback(e) leaves _transform.
tryCallback(t, err, throws) ==
    IF err = "ok" /\ throws
    THEN callback(callback(t, "ok"), "CallbackThrew")
    ELSE callback(t, err)

\* _transform is entered for a new chunk
Entered(t) == [t EXCEPT !.ncb = 0]

\* the await inside _transform's try block: suspended, or settled already
awaitCall(t, outcome) ==
    IF outcome = "accepted" THEN [t EXCEPT !.busy = TRUE] ELSE tryCallback(t, outcome, FALSE)

\* the k bytes written next, each named by its offset in the stream
NextBytes(k) == [j \in 1 .. k |-> written + j]

\* ------------------------------------------------------- returned Buffers
\* A Buffer is its byte length, the memory behind it ("own" for an
\* allocation of its own, "heap" for a view of the WASM heap at ptr) and the
\* data it held when it was made.
NoBuffer == [len |-> 0, backing |-> "own", ptr |-> 0, data |-> 0]

\* Buffer.from(HEAPU8.subarray(ptr, ptr + len)) with a typed array as only
\* argument: a new allocation holding a copy of the bytes
BufferFrom_view(h, ptr, len) ==
    [len |-> len, backing |-> "heap", ptr |-> ptr, data |-> h[ptr].data]

BufferFrom(h, ptr, len) ==
    [len |-> len, backing |-> "own", ptr |-> 0, data |-> h[ptr].data]

\* Napi::Buffer<int16_t>::Copy(env, outBuffer, outSize): a new allocation
BufferCopy(data, len) == [len |-> len, backing |-> "own", ptr |-> 0, data |-> data]

\* ----------------------------------------------------- WASM processChunk
\* The body of processChunk works on a bundle m: the instance r, the WASM
\* heap, the Speex states, the outcome err ("ok" until something throws) and
\* the byte length of the returned Buffer.  The body runs on the main
\* thread between two awaits, so no other call of the instance runs with it.
Bundle(r, h, ss) ==
    [r |-> r, heap |-> h, states |-> ss, err |-> "ok", out |-> 0,
     offered |-> 0, used |-> 0, frames |-> 0, buf |-> NoBuffer,
     overlapped |-> FALSE]

\* What the caller has seen of an instance: how the latest call that ran
\* ended (err, the bytes returned, the frames offered to the engine and the
\* frames it reported consumed through in_len), the chunk bytes of the calls
\* that succeeded, the bytes returned in total, and whether all succeeded.
\* log is the sequence of the calls that ran, in the order they settled:
\* the chunk bytes, the state of the module load when the body ran, the
\* error and the bytes returned, the frames per channel the engine
\* reported written through out_len, and whether another call of the same
\* instance was in flight.
NoCalls ==
    [err |-> "none", out |-> 0, offered |-> 0, used |-> 0,
     sumIn |-> 0, sumOut |-> 0, allOk |-> TRUE, bufs |-> <<>>, log |-> <<>>]

\* b: the out, offered, used and buf of the call that ended with err on a
\* chunk of n bytes; bufs are the Buffers returned so far.
Settled(f, err, n, b) ==
    [err |-> err, out |-> b.out, offered |-> b.offered, used |-> b.used,
     sumIn |-> f.sumIn + (IF err = "ok" THEN n ELSE 0),
     sumOut |-> f.sumOut + b.out,
     allOk |-> f.allOk /\ err = "ok",
     bufs |-> IF err = "ok" THEN Append(f.bufs, b.buf) ELSE f.bufs,
     log |-> Append(f.log, [n |-> n, load |-> moduleState, err |-> err,
                            out |-> b.out, frames |-> b.frames,
                            overlapped |-> b.overlapped])]

\* LazyInit without the test of _resamplerPtr: every call initialises
LazyInit_everyCall(m) ==
    LET e == malloc(m.heap, ERRPTR_SIZE)
        errNum == speex_init_err(m.r.channels, m.r.inRate, m.r.outRate, m.r.quality)
        il == malloc(e.heap, UINT32_BYTES)
        ol == malloc(il.heap, UINT32_BYTES)
    IN  IF errNum # RESAMPLER_ERR_SUCCESS
        THEN [m EXCEPT !.heap = e.heap, !.err = "InitError"]
        ELSE [m EXCEPT
                 !.heap = ol.heap,
                 !.states = Append(m.states,
                     speex_new_state(m.r.channels, m.r.inRate, m.r.outRate, m.r.quality)),
                 !.r._resamplerPtr = Len(m.states) + 1,
                 !.r._inLengthPtr = il.ptr,
                 !.r._outLengthPtr = ol.ptr]

\* LazyInit passing outRate and inRate to speex_resampler_init in each
\* other's place
LazyInit_swappedRates(m) ==
    IF m.r._resamplerPtr # 0
    THEN m
    ELSE LET e == malloc(m.heap, ERRPTR_SIZE)
             errNum == speex_init_err(m.r.channels, m.r.outRate, m.r.inRate, m.r.quality)
             il == malloc(e.heap, UINT32_BYTES)
             ol == malloc(il.heap, UINT32_BYTES)
         IN  IF errNum # RESAMPLER_ERR_SUCCESS
             THEN [m EXCEPT !.heap = e.heap, !.err = "InitError"]
             ELSE [m EXCEPT
                      !.heap = ol.heap,
                      !.states = Append(m.states,
                          speex_new_state(m.r.channels, m.r.outRate, m.r.inRate, m.r.quality)),
                      !.r._resamplerPtr = Len(m.states) + 1,
                      !.r._inLengthPtr = il.ptr,
                      !.r._outLengthPtr = ol.ptr]

\* if (!this._resamplerPtr) { ... speex_resampler_init ... }
LazyInit(m) ==
    IF m.r._resamplerPtr # 0
    THEN m
    ELSE LET e == malloc(m.heap, ERRPTR_SIZE)
             errNum == speex_init_err(m.r.channels, m.r.inRate, m.r.outRate, m.r.quality)
             il == malloc(e.heap, UINT32_BYTES)
             ol == malloc(il.heap, UINT32_BYTES)
         IN  IF errNum # RESAMPLER_ERR_SUCCESS
             THEN [m EXCEPT !.heap = e.heap, !.err = "InitError"]
             ELSE [m EXCEPT
                      !.heap = ol.heap,
                      !.states = Append(m.states,
                          speex_new_state(m.r.channels, m.r.inRate, m.r.outRate, m.r.quality)),
                      !.r._resamplerPtr = Len(m.states) + 1,
                      !.r._inLengthPtr = il.ptr,
                      !.r._outLengthPtr = ol.ptr]

\* ResizeIn that reallocates to the chunk's length on every call
ResizeIn_everyCall(m, n) ==
    LET h == IF m.r._inBufferPtr # -1 THEN free(m.heap, m.r._inBufferPtr) ELSE m.heap
        a == malloc(h, n)
    IN  [m EXCEPT !.heap = a.heap, !.r._inBufferPtr = a.ptr, !.r._inBufferSize = n]

\* ResizeIn that allocates the first time only and never grows
ResizeIn_firstCallOnly(m, n) ==
    IF m.r._inBufferPtr = -1
    THEN LET a == malloc(m.heap, n)
         IN  [m EXCEPT !.heap = a.heap, !.r._inBufferPtr = a.ptr, !.r._inBufferSize = n]
    ELSE m

\* Resizing the input buffer in the WASM memory space
ResizeIn(m, n) ==
    IF m.r._inBufferSize < n
    THEN LET h == IF m.r._inBufferPtr # -1 THEN free(m.heap, m.r._inBufferPtr) ELSE m.heap
             a == malloc(h, n)
         IN  [m EXCEPT !.heap = a.heap, !.r._inBufferPtr = a.ptr, !.r._inBufferSize = n]
    ELSE m

outBufferLengthTarget(r, n) == Ceil(n * r.outRate, r.inRate)

\* ResizeOut that allocates the first time only and never grows
ResizeOut_firstCallOnly(m, n) ==
    IF m.r._outBufferPtr = -1
    THEN LET a == malloc(m.heap, outBufferLengthTarget(m.r, n))
         IN  [m EXCEPT !.heap = a.heap, !.r._outBufferPtr = a.ptr,
                       !.r._outBufferSize = outBufferLengthTarget(m.r, n)]
    ELSE m

\* Resizing the output buffer in the WASM memory space
ResizeOut(m, n) ==
    IF m.r._outBufferSize < outBufferLengthTarget(m.r, n)
    THEN LET h == IF m.r._outBufferPtr # -1 THEN free(m.heap, m.r._outBufferPtr) ELSE m.heap
             a == malloc(h, outBufferLengthTarget(m.r, n))
         IN  [m EXCEPT !.heap = a.heap, !.r._outBufferPtr = a.ptr,
                       !.r._outBufferSize = outBufferLengthTarget(m.r, n)]
    ELSE m

\* setValue of both lengths, the copy into the heap and the native call
NativeCall(m, n) ==
    LET inLen == n \div (m.r.channels * BYTES_PER_ELEMENT)
        outLen == m.r._outBufferSize \div (m.r.channels * BYTES_PER_ELEMENT)
        res == speex_process(m.states[m.r._resamplerPtr], inLen, outLen)
    IN  IF res.errNum # RESAMPLER_ERR_SUCCESS
        THEN [m EXCEPT !.err = "ProcessError"]
        ELSE LET len == res.out_len * m.r.channels * BYTES_PER_ELEMENT
                 h == IF len > 0
                      THEN [m.heap EXCEPT ![m.r._outBufferPtr].data = @ + 1]
                      ELSE m.heap
             IN  [m EXCEPT !.states[m.r._resamplerPtr] = res.st,
                           !.heap = h,
                           !.offered = inLen,
                           !.used = res.in_len,
                           !.frames = res.out_len,
                           !.out = len,
                           !.buf = BufferFrom(h, m.r._outBufferPtr, len)]

\* processChunk from the lazy initialisation to the native call
processBody(m, n) ==
    LET m1 == LazyInit(m)
    IN  IF m1.err # "ok" THEN m1 ELSE NativeCall(ResizeOut(ResizeIn(m1, n), n), n)

\* asyncEntry without the alignment check
asyncEntry_noAlignmentCheck(r, n) ==
    IF r._processing
    THEN [r |-> r, ret |-> "ConcurrencyError"]
    ELSE [r |-> [r EXCEPT !._processing = TRUE], ret |-> "accepted"]

\* asyncEntry without the _processing guard
asyncEntry_noBusyGuard(r, n) ==
    IF Misaligned(n, r.channels)
    THEN [r |-> r, ret |-> "AlignmentError"]
    ELSE [r |-> [r EXCEPT !._processing = TRUE], ret |-> "accepted"]

\* async processChunk up to `await globalModulePromise`
asyncEntry(r, n) ==
    IF r._processing
    THEN [r |-> r, ret |-> "ConcurrencyError"]
    ELSE IF Misaligned(n, r.channels)
         THEN [r |-> r, ret |-> "AlignmentError"]
         ELSE [r |-> [r EXCEPT !._processing = TRUE], ret |-> "accepted"]

\* async processChunk after `await globalModulePromise`
asyncResume(m, n, loadState) ==
    IF loadState = "failed"
    THEN [m EXCEPT !.err = "ModuleLoadError"]
    ELSE LET b == processBody(m, n)
         IN  IF b.err = "ok" THEN [b EXCEPT !.r._processing = FALSE] ELSE b

\* syncCall without the !speexModule guard
syncCall_noLoadGuard(m, n, loadState) ==
    IF Misaligned(n, m.r.channels)
    THEN [m EXCEPT !.err = "AlignmentError"]
    ELSE processBody(m, n)

\* the synchronous processChunk
syncCall(m, n, loadState) ==
    IF loadState # "loaded"
    THEN [m EXCEPT !.err = "NotLoadedError"]
    ELSE IF Misaligned(n, m.r.channels)
         THEN [m EXCEPT !.err = "AlignmentError"]
         ELSE processBody(m, n)

\* ------------------------------------------------------------ WASM actions
\* speex_wasm_1.default().then((s) => speexModule = s)
ModuleLoaded ==
    /\ IsWasm
    /\ moduleState = "loading"
    /\ moduleState' = "loaded"
    /\ UNCHANGED <<variant, stream, gc, inst, heap, speexStates, pending, ret, fin,
                   lastCreate, ncalls, workers, tr, written, passed>>

ModuleLoadFailed ==
    /\ IsWasm
    /\ moduleState = "loading"
    /\ moduleState' = "failed"
    /\ UNCHANGED <<variant, stream, gc, inst, heap, speexStates, pending, ret, fin,
                   lastCreate, ncalls, workers, tr, written, passed>>

\* new SpeexResampler(...) or new SpeexResamplerTransform(...), WASM bindings
NewWasmResampler(i, channels, inRate, outRate, quality) ==
    /\ IsWasm
    /\ ~inst[i].exists
    /\ inst' = [inst EXCEPT ![i] = WasmConstructor(channels, inRate, outRate, quality)]
    /\ tr' = IF stream = "none" THEN tr ELSE TransformConstructor(stream, channels)
    /\ UNCHANGED <<variant, stream, gc, moduleState, heap, speexStates, pending, ret,
                   fin, lastCreate, ncalls, workers, written, passed>>

\* A call of the async processChunk with a chunk of n bytes.
ProcessChunkAsync(i, n) ==
    /\ variant = "wasmAsync"
    /\ inst[i].exists
    /\ ncalls < MaxCalls
    /\ LET e == asyncEntry(inst[i], n)
       IN  /\ inst' = [inst EXCEPT ![i] = e.r]
           /\ ret' = [ret EXCEPT ![i] = e.ret]
           /\ pending' = [pending EXCEPT
                             ![i] = IF e.ret = "accepted" THEN Append(@, n) ELSE @]
    /\ ncalls' = ncalls + 1
    /\ UNCHANGED <<variant, stream, gc, moduleState, heap, speexStates, fin,
                   lastCreate, workers>>

\* The continuation of the oldest suspended call runs to its end.
ResumeAsync(i) ==
    /\ variant = "wasmAsync"
    /\ pending[i] # <<>>
    /\ moduleState # "loading"
    /\ LET b == asyncResume(Bundle(inst[i], heap, speexStates), Head(pending[i]),
                            moduleState)
       IN  /\ inst' = [inst EXCEPT ![i] = b.r]
           /\ heap' = b.heap
           /\ speexStates' = b.states
           /\ fin' = [fin EXCEPT ![i] =
                         Settled(@, b.err, Head(pending[i]), b)]
    /\ pending' = [pending EXCEPT ![i] = Tail(@)]
    /\ \E throws \in BOOLEAN :
          tr' = IF stream = "none" THEN tr ELSE tryCallback(tr, fin'[i].err, throws)
    /\ UNCHANGED <<variant, stream, gc, moduleState, ret, lastCreate, ncalls, workers,
                   written, passed>>

\* A call of the synchronous processChunk with a chunk of n bytes.
ProcessChunkSync(i, n) ==
    /\ variant = "wasmSync"
    /\ inst[i].exists
    /\ ncalls < MaxCalls
    /\ LET b == syncCall(Bundle(inst[i], heap, speexStates), n, moduleState)
       IN  /\ inst' = [inst EXCEPT ![i] = b.r]
           /\ heap' = b.heap
           /\ speexStates' = b.states
           /\ ret' = [ret EXCEPT ![i] = b.err]
           /\ fin' = [fin EXCEPT ![i] = Settled(@, b.err, n, b)]
    /\ ncalls' = ncalls + 1
    /\ UNCHANGED <<variant, stream, gc, moduleState, pending, lastCreate, workers>>

\* ------------------------------------------------- native binding (N-API)
IsNumber(v) == Len(v) = 1

Int32Value(v) == v[1]

\* info[k] of Napi::CallbackInfo: undefined beyond the arguments passed
Arg(info, k) == IF k + 1 <= Len(info) THEN info[k + 1] ELSE Undefined

\* the quality createResampler passes to speex_resampler_init
createResamplerQuality(info) ==
    IF Len(info) = 4 /\ Arg(info, 4) # Undefined
    THEN Int32Value(Arg(info, 3))
    ELSE DEFAULT_QUALITY

\* whether createResampler rejects the quality argument
createResamplerQualityThrows(info) ==
    /\ Len(info) = 4 /\ Arg(info, 4) # Undefined
    /\ \/ ~IsNumber(Arg(info, 3))
       \/ Int32Value(Arg(info, 3)) < MIN_QUALITY
       \/ Int32Value(Arg(info, 3)) > MAX_QUALITY

\* createResampler(info): what it throws ("none" when it returns) and the
\* SpeexResamplerState it creates (<<>> when it creates none)
createResampler(info) ==
    LET quality == createResamplerQuality(info)
    IN  IF Len(info) # 3 /\ Len(info) # 4
        THEN [threw |-> "Should get 3 or 4 arguments", created |-> <<>>]
        ELSE IF ~IsNumber(Arg(info, 0)) \/ Int32Value(Arg(info, 0)) < 1
        THEN [threw |-> "First argument channels", created |-> <<>>]
        ELSE IF ~IsNumber(Arg(info, 1)) \/ Int32Value(Arg(info, 1)) < 1
        THEN [threw |-> "Second argument inRate", created |-> <<>>]
        ELSE IF ~IsNumber(Arg(info, 2)) \/ Int32Value(Arg(info, 2)) < 1
        THEN [threw |-> "Third argument outRate", created |-> <<>>]
        ELSE IF createResamplerQualityThrows(info)
        THEN [threw |-> "Fourth argument quality", created |-> <<>>]
        ELSE IF speex_init_err(Int32Value(Arg(info, 0)), Int32Value(Arg(info, 1)),
                               Int32Value(Arg(info, 2)), quality)
                    # RESAMPLER_ERR_SUCCESS
        THEN [threw |-> "Error while initializing speex", created |-> <<>>]
        ELSE [threw |-> "none",
              created |-> <<speex_new_state(Int32Value(Arg(info, 0)), Int32Value(Arg(info, 1)),
                                            Int32Value(Arg(info, 2)), quality)>>]

\* constructor(channels, inRate, outRate, quality) of the native SpeexResampler
NativeConstructor(channels, handle) ==
    [NoInstance EXCEPT !.exists = TRUE, !.channels = channels, !._resamplerPtr = handle]

\* resampleChunk sizing the output from the byte length of the chunk
\* instead of its number of samples
resampleChunk_outSizeFromBytes(i, resampler, st, n, channels) ==
    [inst |-> i, resampler |-> resampler, channels |-> channels,
     inBufferLength |-> n \div BYTES_PER_ELEMENT,
     outSize |-> (st.out_rate * n) \div st.in_rate,
     phase |-> "queued", raced |-> FALSE, err |-> "ok",
     offered |-> 0, used |-> 0, frames |-> 0]

\* resampleChunk: the ResamplerWorker it queues for a chunk of n bytes
resampleChunk(i, resampler, st, n, channels) ==
    LET inBufferLength == n \div BYTES_PER_ELEMENT
    IN  [inst |-> i, resampler |-> resampler, channels |-> channels,
         inBufferLength |-> inBufferLength,
         outSize |-> (st.out_rate * inBufferLength) \div st.in_rate,
         phase |-> "queued", raced |-> FALSE, err |-> "ok",
         offered |-> 0, used |-> 0, frames |-> 0]

\* the synchronous part of the native processChunk
nativeEntry(r, n) ==
    IF Misaligned(n, r.channels) THEN "AlignmentError" ELSE "accepted"

\* Executing that counts the workers of every SpeexResamplerState
Executing_anyResampler(resampler) ==
    {id \in DOMAIN workers : workers[id].phase = "executing"}

\* ResamplerWorker::Execute on a state no other thread touches
Execute(w, st) ==
    LET inLen == w.inBufferLength \div w.channels
        outLen == w.outSize \div w.channels
        res == speex_process(st, inLen, outLen)
    IN  [w |-> [w EXCEPT !.phase = "executed",
                         !.err = IF res.errNum # RESAMPLER_ERR_SUCCESS
                                 THEN "ProcessError" ELSE "ok",
                         !.offered = inLen,
                         !.used = res.in_len,
                         !.frames = res.out_len,
                         !.outSize = res.out_len * w.channels],
         st |-> res.st]

Executing(resampler) ==
    {id \in DOMAIN workers :
        workers[id].phase = "executing" /\ workers[id].resampler = resampler}

Queued == {id \in DOMAIN workers : workers[id].phase = "queued"}

\* new SpeexResampler(...) or new TransformStream(...) of the native binding
NewNativeResampler(i, channels, inRate, outRate, quality) ==
    /\ variant = "native"
    /\ ~inst[i].exists
    /\ LET q == IF stream # "none" /\ quality = Undefined THEN Num(DEFAULT_QUALITY) ELSE quality
           info == <<Num(channels), Num(inRate), Num(outRate), q>>
           c == createResampler(info)
       IN  /\ lastCreate' = [info |-> info, threw |-> c.threw,
                             before |-> Len(speexStates)]
           /\ speexStates' = speexStates \o c.created
           /\ inst' = IF c.threw = "none"
                      THEN [inst EXCEPT ![i] = NativeConstructor(channels, Len(speexStates) + 1)]
                      ELSE inst
           /\ tr' = IF c.threw = "none" /\ stream # "none"
                    THEN TransformConstructor(stream, channels)
                    ELSE tr
    /\ UNCHANGED <<variant, stream, gc, moduleState, heap, pending, ret, fin, ncalls,
                   workers, written, passed>>

\* A call of the native processChunk with a chunk of n bytes.
ProcessChunkNative(i, n) ==
    /\ variant = "native"
    /\ inst[i].exists
    /\ ncalls < MaxCalls
    /\ ret' = [ret EXCEPT ![i] = nativeEntry(inst[i], n)]
    /\ workers' =
          IF nativeEntry(inst[i], n) = "accepted"
          THEN [id \in (DOMAIN workers) \cup {ncalls + 1} |->
                   IF id = ncalls + 1
                   THEN resampleChunk(i, inst[i]._resamplerPtr,
                                      speexStates[inst[i]._resamplerPtr], n,
                                      inst[i].channels)
                   ELSE workers[id]]
          ELSE workers
    /\ ncalls' = ncalls + 1
    /\ UNCHANGED <<variant, stream, gc, moduleState, inst, heap, speexStates, pending,
                   fin, lastCreate>>

\* A pool thread takes the oldest queued worker and enters Execute.
ExecuteBegin(id) ==
    /\ variant = "native"
    /\ id \in Queued
    /\ \A other \in Queued : id <= other
    /\ Cardinality({x \in DOMAIN workers : workers[x].phase = "executing"}) < PoolSize
    /\ workers' = [x \in DOMAIN workers |->
                      IF x = id
                      THEN [workers[x] EXCEPT
                              !.phase = "executing",
                              !.raced = Executing(workers[id].resampler) # {}]
                      ELSE IF x \in Executing(workers[id].resampler)
                      THEN [workers[x] EXCEPT !.raced = TRUE]
                      ELSE workers[x]]
    /\ UNCHANGED <<variant, stream, gc, moduleState, inst, heap, speexStates, pending,
                   ret, fin, lastCreate, ncalls, tr, written, passed>>

\* Execute returns.  Two threads inside
\* speex_resampler_process_interleaved_int on one state race: the frames
\* written and the position left behind are then any values.
ExecuteEnd(id) ==
    /\ variant = "native"
    /\ id \in DOMAIN workers
    /\ workers[id].phase = "executing"
    /\ LET st == speexStates[workers[id].resampler]
           e == Execute(workers[id], st)
       IN  IF workers[id].raced
           THEN \E out \in 0 .. (workers[id].outSize \div workers[id].channels),
                   pos \in 0 .. (st.num_rate + st.den_rate - 1) :
                   /\ workers' = [workers EXCEPT ![id] =
                                     [e.w EXCEPT !.frames = out,
                                                 !.outSize = out * workers[id].channels]]
                   /\ speexStates' = [speexStates EXCEPT
                                         ![workers[id].resampler].pos = pos]
           ELSE /\ workers' = [workers EXCEPT ![id] = e.w]
                /\ speexStates' = [speexStates EXCEPT ![workers[id].resampler] = e.st]
    /\ UNCHANGED <<variant, stream, gc, moduleState, inst, heap, pending, ret, fin,
                   lastCreate, ncalls, tr, written, passed>>

\* OnOK taking outSize, a count of int16_t elements, for a count of bytes
OnOK_elementsAsBytes(id, w) ==
    LET len == IF w.err = "ok" THEN w.outSize ELSE 0
    IN  [out |-> len, offered |-> w.offered, used |-> w.used, frames |-> w.frames,
         buf |-> BufferCopy(id, len),
         overlapped |-> \E x \in (DOMAIN workers) \ {id} :
                           workers[x].inst = w.inst]

\* ResamplerWorker::OnOK: what the callback receives from worker id
OnOK(id, w) ==
    LET len == IF w.err = "ok" THEN w.outSize * BYTES_PER_ELEMENT ELSE 0
    IN  [out |-> len, offered |-> w.offered, used |-> w.used, frames |-> w.frames,
         buf |-> BufferCopy(id, len),
         overlapped |-> \E x \in (DOMAIN workers) \ {id} :
                           workers[x].inst = w.inst]

\* OnOK / OnError on the main thread: the promise settles, the worker goes.
WorkerDone(id) ==
    /\ variant = "native"
    /\ id \in DOMAIN workers
    /\ workers[id].phase = "executed"
    /\ fin' = [fin EXCEPT ![workers[id].inst] =
                  Settled(@, workers[id].err,
                          workers[id].inBufferLength * BYTES_PER_ELEMENT,
                          OnOK(id, workers[id]))]
    /\ workers' = [x \in (DOMAIN workers) \ {id} |-> workers[x]]
    /\ \E throws \in BOOLEAN :
          tr' = IF stream = "none" THEN tr ELSE tryCallback(tr, workers[id].err, throws)
    /\ UNCHANGED <<variant, stream, gc, moduleState, inst, heap, speexStates, pending,
                   ret, lastCreate, ncalls, written, passed>>

\* ------------------------------------------ lifetime of native resources
\* the callback of a worker keeping nothing reachable
Retained_nothing(x) ==
    {}

\* What the callback of worker x keeps reachable.  AsyncWorker(callback)
\* holds a persistent reference to the callback until the worker is deleted
\* after OnOK or OnError.  The callback is the arrow function created inside
\* processChunk, whose scope holds `this` (the SpeexResampler object, which
\* holds the External of its state) and chunk.  The worker itself keeps a
\* raw SpeexResamplerState pointer and a plain Napi::Buffer handle.
Retained(x) ==
    {<<"instance", workers[x].inst>>, <<"chunk", x>>}

Reachable(obj) == \E x \in DOMAIN workers : obj \in Retained(x)

\* dropped: the instances the program no longer references; finalized: the
\* states finalizeResampler has destroyed, in order; released: the chunks
\* (named by their call) whose memory the collector has released
NoGc == [dropped |-> {}, finalized |-> <<>>, released |-> {}]

\* The program drops its last reference to instance i.
Drop(i) ==
    /\ variant = "native"
    /\ inst[i].exists
    /\ i \notin gc.dropped
    /\ gc' = [gc EXCEPT !.dropped = @ \cup {i}]
    /\ UNCHANGED <<variant, stream, moduleState, inst, heap, speexStates, pending,
                   ret, fin, lastCreate, ncalls, workers, tr, written, passed>>

\* The collector reclaims the External of instance i, once: N-API calls
\* finalizeResampler, which calls speex_resampler_destroy.
Finalize(i) ==
    /\ variant = "native"
    /\ i \in gc.dropped
    /\ ~Reachable(<<"instance", i>>)
    /\ \A k \in 1 .. Len(gc.finalized) : gc.finalized[k] # inst[i]._resamplerPtr
    /\ gc' = [gc EXCEPT !.finalized = Append(@, inst[i]._resamplerPtr)]
    /\ UNCHANGED <<variant, stream, moduleState, inst, heap, speexStates, pending,
                   ret, fin, lastCreate, ncalls, workers, tr, written, passed>>

\* The collector releases the chunk of call id; the caller kept no
\* reference to it after the call.
ReleaseChunk(id) ==
    /\ variant = "native"
    /\ id \in 1 .. ncalls
    /\ id \notin gc.released
    /\ ~Reachable(<<"chunk", id>>)
    /\ gc' = [gc EXCEPT !.released = @ \cup {id}]
    /\ UNCHANGED <<variant, stream, moduleState, inst, heap, speexStates, pending,
                   ret, fin, lastCreate, ncalls, workers, tr, written, passed>>

\* --------------------------------------- second native revision (ObjectWrap)
\* new SpeexResampler(channels, inRate, outRate, quality) of the addon
Native2Constructor(channels, inRate, outRate, quality) ==
    IF speex_init_err(channels, inRate, outRate, quality) # RESAMPLER_ERR_SUCCESS
    THEN NoInstance
    ELSE [NoInstance EXCEPT !.exists = TRUE, !.channels = channels,
                            !.inRate = inRate, !.outRate = outRate,
                            !.quality = quality]

\* processChunk of the addon: how the promise settles for a chunk of n bytes
native2ProcessChunk(r, n) ==
    IF n % (r.channels * BYTES_PER_ELEMENT) # 0 THEN "AlignmentError" ELSE "ok"

NewNative2Transform(i, channels, inRate, outRate, quality) ==
    /\ variant = "native2"
    /\ ~inst[i].exists
    /\ LET r == Native2Constructor(channels, inRate, outRate,
                    IF quality = Undefined THEN DEFAULT_QUALITY ELSE quality[1])
       IN  /\ inst' = [inst EXCEPT ![i] = r]
           /\ tr' = IF r.exists THEN TransformConstructor(stream, channels) ELSE tr
    /\ UNCHANGED <<variant, stream, gc, moduleState, heap, speexStates, pending, ret,
                   fin, lastCreate, ncalls, workers, written, passed>>

\* ------------------------------------------------------ calls and writes
\* The user calls processChunk on a resampler that no stream owns.
CallAsync(i, n) ==
    /\ stream = "none"
    /\ ProcessChunkAsync(i, n)
    /\ UNCHANGED <<tr, written, passed>>

CallSync(i, n) ==
    /\ stream = "none"
    /\ ProcessChunkSync(i, n)
    /\ UNCHANGED <<tr, written, passed>>

CallNative(i, n) ==
    /\ stream = "none"
    /\ ProcessChunkNative(i, n)
    /\ UNCHANGED <<tr, written, passed>>

\* The stream delivers the next k written bytes to _transform; the stream
\* calls _transform again only after the callback.
WriteAsync(i, k) ==
    /\ stream # "none"
    /\ tr.exists /\ ~tr.busy /\ ~tr.ended
    /\ LET a == _transform(stream, Entered(tr), NextBytes(k))
       IN  /\ ProcessChunkAsync(i, Len(a.handed))
           /\ passed' = Append(passed, a.handed)
           /\ tr' = awaitCall(a.t, ret'[i])
    /\ written' = written + k

WriteSync(i, k) ==
    /\ stream # "none"
    /\ tr.exists /\ ~tr.busy /\ ~tr.ended
    /\ LET a == _transform(stream, Entered(tr), NextBytes(k))
       IN  /\ ProcessChunkSync(i, Len(a.handed))
           /\ passed' = Append(passed, a.handed)
           /\ \E throws \in BOOLEAN : tr' = tryCallback(a.t, ret'[i], throws)
    /\ written' = written + k

WriteNative(i, k) ==
    /\ stream # "none"
    /\ tr.exists /\ ~tr.busy /\ ~tr.ended
    /\ LET a == _transform(stream, Entered(tr), NextBytes(k))
       IN  /\ ProcessChunkNative(i, Len(a.handed))
           /\ passed' = Append(passed, a.handed)
           /\ tr' = awaitCall(a.t, ret'[i])
    /\ written' = written + k

WriteNative2(i, k) ==
    /\ variant = "native2"
    /\ tr.exists /\ ~tr.busy /\ ~tr.ended
    /\ ncalls < MaxCalls
    /\ LET a == _transform(stream, Entered(tr), NextBytes(k))
       IN  /\ passed' = Append(passed, a.handed)
           /\ ret' = [ret EXCEPT ![i] = native2ProcessChunk(inst[i], Len(a.handed))]
           /\ \E throws \in BOOLEAN : tr' = tryCallback(a.t, ret'[i], throws)
    /\ written' = written + k
    /\ ncalls' = ncalls + 1
    /\ UNCHANGED <<variant, stream, gc, moduleState, inst, heap, speexStates, pending,
                   fin, lastCreate, workers>>

\* The input ends (end() or the piped source ends) once the chunk in hand
\* has had its callback.  No revision of SpeexResamplerTransform defines
\* _flush or _final, so nothing more is handed to processChunk.
End ==
    /\ tr.exists /\ ~tr.busy /\ ~tr.ended
    /\ tr' = [tr EXCEPT !.ended = TRUE]
    /\ UNCHANGED <<variant, stream, gc, moduleState, inst, heap, speexStates, pending,
                   ret, fin, lastCreate, ncalls, workers, written, passed>>

\* ------------------------------------------------------------ specification
Revisions ==
    {<<"wasmAsync", "none">>, <<"wasmAsync", "slice">>, <<"wasmAsync", "copy">>,
     <<"wasmSync", "none">>, <<"wasmSync", "slice">>,
     <<"native", "none">>, <<"native", "copy">>,
     <<"native2", "rev2">>, <<"native2", "bare">>}

Init ==
    /\ \E rv \in Revisions : variant = rv[1] /\ stream = rv[2]
    /\ moduleState = "loading"
    /\ inst = [i \in Inst |-> NoInstance]
    /\ heap = EmptyHeap
    /\ speexStates = <<>>
    /\ pending = [i \in Inst |-> <<>>]
    /\ ret = [i \in Inst |-> "none"]
    /\ fin = [i \in Inst |-> NoCalls]
    /\ lastCreate = [info |-> <<>>, threw |-> "none", before |-> 0]
    /\ ncalls = 0
    /\ workers = [x \in {} |-> 0]
    /\ tr = NoTransform
    /\ written = 0
    /\ passed = <<>>
    /\ gc = NoGc

Next ==
    \/ ModuleLoaded
    \/ ModuleLoadFailed
    \/ \E i \in Inst, c \in ChannelArgs, ir \in RateArgs, or \in RateArgs, q \in QualityArgs :
          \/ NewWasmResampler(i, c, ir, or, q)
          \/ NewNativeResampler(i, c, ir, or, q)
          \/ NewNative2Transform(i, c, ir, or, q)
    \/ \E i \in Inst, n \in Lens :
          \/ CallAsync(i, n)
          \/ CallSync(i, n)
          \/ CallNative(i, n)
          \/ WriteAsync(i, n)
          \/ WriteSync(i, n)
          \/ WriteNative(i, n)
          \/ WriteNative2(i, n)
    \/ End
    \/ \E i \in Inst : ResumeAsync(i)
    \/ \E id \in 1 .. MaxCalls :
          \/ ExecuteBegin(id)
          \/ ExecuteEnd(id)
          \/ WorkerDone(id)

Spec == Init /\ [][Next]_vars

\* A call is suspended at `await globalModulePromise` and the promise has
\* settled: the state predicate ENABLED <<ResumeAsync(i)>>_vars.
Suspended(i) ==
    variant = "wasmAsync" /\ pending[i] # <<>> /\ moduleState # "loading"

\* The load promise of the WASM module settles, the continuation of an
\* awaited call is run by the event loop (WF_vars(ResumeAsync(i)) with its
\* ENABLED written as Suspended(i)), and the thread pool runs every queued
\* worker, whose native call returns.
Fairness ==
    /\ WF_vars(ModuleLoaded \/ ModuleLoadFailed)
    /\ \A i \in Inst : ([]<>~Suspended(i)) \/ ([]<><<ResumeAsync(i)>>_vars)
    /\ WF_vars(\E id \in 1 .. MaxCalls : ExecuteBegin(id))
    /\ \A id \in 1 .. MaxCalls : WF_vars(ExecuteEnd(id))
    /\ \A id \in 1 .. MaxCalls : WF_vars(WorkerDone(id))

LiveSpec == Spec /\ Fairness

\* ------------------------------------------- two resamplers side by side
\* Two SpeexResampler objects of one process, no stream in front of them.
\* The WASM revisions share speexModule and its heap, the native revision
\* shares the thread pool.
Pair == {"r1", "r2"}
PairChannels == {1, 2}
PairRates == {1, 2}

PairInit ==
    /\ variant \in {"wasmAsync", "wasmSync", "native"}
    /\ stream = "none"
    /\ moduleState = "loading"
    /\ inst = [i \in Pair |-> NoInstance]
    /\ heap = EmptyHeap
    /\ speexStates = <<>>
    /\ pending = [i \in Pair |-> <<>>]
    /\ ret = [i \in Pair |-> "none"]
    /\ fin = [i \in Pair |-> NoCalls]
    /\ lastCreate = [info |-> <<>>, threw |-> "none", before |-> 0]
    /\ ncalls = 0
    /\ workers = [x \in {} |-> 0]
    /\ tr = NoTransform
    /\ written = 0
    /\ passed = <<>>
    /\ gc = NoGc

PairNext ==
    \/ ModuleLoaded
    \/ ModuleLoadFailed
    \/ \E i \in Pair, c \in PairChannels, ir \in PairRates, or \in PairRates :
          \/ NewWasmResampler(i, c, ir, or, Undefined)
          \/ NewNativeResampler(i, c, ir, or, Undefined)
    \/ \E i \in Pair, n \in Lens :
          \/ CallAsync(i, n)
          \/ CallSync(i, n)
          \/ CallNative(i, n)
    \/ \E i \in Pair : ResumeAsync(i)
    \/ \E id \in 1 .. MaxCalls :
          \/ ExecuteBegin(id)
          \/ ExecuteEnd(id)
          \/ WorkerDone(id)

PairSpec == PairInit /\ [][PairNext]_vars

\* --------------------------------- the native binding under the collector
\* processChunk can only be called on an instance the program references.
CallHeld(i, n) ==
    /\ i \notin gc.dropped
    /\ CallNative(i, n)

\* The first native revision with no stream in front: the program may drop
\* the resampler and its chunks at any point, and the collector runs.
GcInit ==
    /\ variant = "native"
    /\ stream = "none"
    /\ moduleState = "loading"
    /\ inst = [i \in Inst |-> NoInstance]
    /\ heap = EmptyHeap
    /\ speexStates = <<>>
    /\ pending = [i \in Inst |-> <<>>]
    /\ ret = [i \in Inst |-> "none"]
    /\ fin = [i \in Inst |-> NoCalls]
    /\ lastCreate = [info |-> <<>>, threw |-> "none", before |-> 0]
    /\ ncalls = 0
    /\ workers = [x \in {} |-> 0]
    /\ tr = NoTransform
    /\ written = 0
    /\ passed = <<>>
    /\ gc = NoGc

GcNext ==
    \/ \E i \in Inst, c \in ChannelArgs, ir \in RateArgs, or \in RateArgs, q \in QualityArgs :
          NewNativeResampler(i, c, ir, or, q)
    \/ \E i \in Inst, n \in Lens : CallHeld(i, n)
    \/ \E id \in 1 .. MaxCalls :
          \/ ExecuteBegin(id)
          \/ ExecuteEnd(id)
          \/ WorkerDone(id)
          \/ ReleaseChunk(id)
    \/ \E i \in Inst :
          \/ Drop(i)
          \/ Finalize(i)

GcSpec == GcInit /\ [][GcNext]_vars

\* ------------------------------------------------------------------ claims
\* A step that is a processChunk call on instance i with a chunk of n bytes,
\* made by the user or by _transform.
ProcessChunkStep(i, n) ==
    \/ ProcessChunkAsync(i, n)
    \/ ProcessChunkSync(i, n)
    \/ ProcessChunkNative(i, n)

\* The fields of the instances, the scratch buffers, the calls in flight and
\* the native resamplers are what they were.
InstanceUntouched ==
    /\ inst' = inst
    /\ heap' = heap
    /\ speexStates' = speexStates
    /\ pending' = pending
    /\ workers' = workers

\* C1 as stated: in every binding, processChunk on a chunk whose length is
\* not a multiple of channels*2 fails with the alignment error, the busy flag
\* stays false and the instance, its buffers and the native resampler are
\* untouched.
C1_AsStated ==
    [][\A i \in Inst, n \in Lens :
          (ProcessChunkStep(i, n) /\ Misaligned(n, inst[i].channels))
              => /\ ret'[i] = "AlignmentError"
                 /\ ~inst'[i]._processing
                 /\ InstanceUntouched]_vars

\* C1 amended: a chunk whose length is not a multiple of channels*2 is always
\* rejected and leaves the instance, its buffers, the busy flag and the
\* native resampler untouched; the error is the alignment error unless an
\* earlier guard of the call fires: "one chunk at a time" when _processing is
\* set (async binding), "wait for initPromise" when the module has not
\* loaded (sync binding).
C1_Amended ==
    [][\A i \in Inst, n \in Lens :
          (ProcessChunkStep(i, n) /\ Misaligned(n, inst[i].channels))
              => /\ ret'[i] =
                       IF variant = "wasmAsync" /\ inst[i]._processing
                       THEN "ConcurrencyError"
                       ELSE IF variant = "wasmSync" /\ moduleState # "loaded"
                       THEN "NotLoadedError"
                       ELSE "AlignmentError"
                 /\ InstanceUntouched]_vars

\* A misaligned chunk has just been rejected by an idle async instance.
C1_Witness ==
    \E i \in Inst :
        /\ variant = "wasmAsync"
        /\ ret[i] = "AlignmentError"
        /\ ~inst[i]._processing
        /\ inst[i].channels > 0

\* C2: in the async WASM binding a processChunk call that starts while an
\* earlier accepted call on the instance has not completed is rejected with
\* the "one chunk at a time" error, and is not itself taken in flight.
C2_OverlapRejected ==
    [][\A i \in Inst, n \in Lens :
          (variant = "wasmAsync" /\ pending[i] # <<>> /\ ProcessChunkAsync(i, n))
              => /\ ret'[i] = "ConcurrencyError"
                 /\ pending' = pending]_vars

\* A second call was rejected while the first still waits for the module.
C2_Witness ==
    \E i \in Inst :
        /\ variant = "wasmAsync"
        /\ moduleState = "loading"
        /\ pending[i] # <<>>
        /\ ret[i] = "ConcurrencyError"

\* C3 as stated: in the async WASM binding, whenever no call is in flight on
\* an instance its _processing flag is false.
C3_AsStated ==
    \A i \in Inst :
        (variant = "wasmAsync" /\ pending[i] = <<>>) => ~inst[i]._processing

\* C4 as stated: in the native binding at most one ResamplerWorker::Execute
\* runs on a SpeexResamplerState at any time.
C4_AsStated ==
    \A resampler \in 1 .. Len(speexStates) : Cardinality(Executing(resampler)) <= 1

\* The configuration createResampler is meant to reject.
InvalidCreateArgs(info) ==
    \/ Int32Value(info[1]) < 1
    \/ Int32Value(info[2]) < 1
    \/ Int32Value(info[3]) < 1
    \/ /\ info[4] # Undefined
       /\ Int32Value(info[4]) \notin MIN_QUALITY .. MAX_QUALITY

\* C5 as stated: createResampler throws and creates no native resampler when
\* channels, inRate or outRate is below 1 or a quality outside 1..10 is
\* supplied, and creates exactly one resampler otherwise.
C5_AsStated ==
    lastCreate.info # <<>> =>
        IF InvalidCreateArgs(lastCreate.info)
        THEN lastCreate.threw # "none" /\ Len(speexStates) = lastCreate.before
        ELSE lastCreate.threw = "none" /\ Len(speexStates) = lastCreate.before + 1

\* C6 as stated: the native resampler is initialised with the quality given
\* to the constructor when one in 1..10 is given, and with 7 when none is.
C6_AsStated ==
    \A i \in Inst :
        (variant = "native" /\ inst[i].exists) =>
            LET q == lastCreate.info[4]
                st == speexStates[inst[i]._resamplerPtr]
            IN  /\ q = Undefined => st.quality = DEFAULT_QUALITY
                /\ (q # Undefined /\ Int32Value(q) \in MIN_QUALITY .. MAX_QUALITY)
                      => st.quality = Int32Value(q)

\* C7 as stated: in the WASM binding no instance built from a configuration
\* the native initialiser rejects exists and has a processChunk call accepted.
C7_AsStated ==
    \A i \in Inst :
        (IsWasm /\ inst[i].exists /\ ret[i] = "accepted") =>
            speex_init_err(inst[i].channels, inst[i].inRate, inst[i].outRate,
                           inst[i].quality) = RESAMPLER_ERR_SUCCESS

\* len is a multiple of m
IsMultiple(len, m) == \E k \in 0 .. len : len = k * m

RECURSIVE Concat(_)
Concat(bufs) == IF bufs = <<>> THEN <<>> ELSE Head(bufs) \o Concat(Tail(bufs))

\* C8 as stated: on the WASM transforms and the first native transform every
\* buffer handed to processChunk has a length that is a multiple of
\* channels*2, and processChunk never raises the alignment error.
C8_AsStated ==
    \A i \in Inst :
        (stream # "none" /\ variant \in {"wasmAsync", "wasmSync", "native"} /\ tr.exists) =>
            /\ \A k \in 1 .. Len(passed) :
                  IsMultiple(Len(passed[k]), tr.channels * BYTES_PER_ELEMENT)
            /\ ret[i] # "AlignmentError"

\* C9 as stated: in the second native transform every buffer handed to
\* processChunk has a length that is a multiple of channels*2.
C9_AsStated ==
    \A i \in Inst :
        (variant = "native2" /\ tr.exists) =>
            \A k \in 1 .. Len(passed) :
                IsMultiple(Len(passed[k]), inst[i].channels * BYTES_PER_ELEMENT)

\* C10: in the slice-based transform the buffers handed to processChunk, in
\* order, followed by _alignementBuffer are exactly the bytes written to the
\* stream, in order.
C10_NoByteLost ==
    (stream = "slice" /\ tr.exists) =>
        Concat(passed) \o tr._alignementBuffer = [j \in 1 .. written |-> j]

\* A remainder was carried into a later, non-empty processed buffer and a
\* new remainder is stored.
C10_Witness ==
    /\ stream = "slice"
    /\ tr.exists
    /\ tr.channels > 0
    /\ Len(passed) >= 2
    /\ Len(passed[1]) % (tr.channels * BYTES_PER_ELEMENT) = 0
    /\ Len(passed[1]) + Len(passed[2]) < written
    /\ Len(passed[2]) > 0
    /\ Len(tr._alignementBuffer) > 0

\* C11 as stated: when the input of the slice-based transform has ended,
\* every byte written has been handed to processChunk (flushed, or padded to
\* a whole frame): no remainder is left behind in _alignementBuffer.
C11_AsStated ==
    (stream = "slice" /\ tr.exists /\ tr.channels >= 1 /\ tr.ended) =>
        /\ Len(Concat(passed)) >= written
        /\ Len(tr._alignementBuffer) = 0

\* C12 as stated: every frame of a chunk that processChunk hands to the
\* engine is consumed by the engine in that call (the binding keeps no
\* frames for a later call, so a frame the engine leaves is dropped).
C12_AsStated ==
    \A i \in Inst : fin[i].err = "ok" => fin[i].used = fin[i].offered

Abs(x) == IF x < 0 THEN 0 - x ELSE x

\* The bytes the caller fed in: the chunks of the calls, or what was written
\* to the stream.
InputBytes(i) == IF stream = "none" THEN fin[i].sumIn ELSE written

\* Nothing is in flight on instance i and a stream in front of it has ended.
Quiescent(i) ==
    /\ pending[i] = <<>>
    /\ \A id \in DOMAIN workers : workers[id].inst # i
    /\ stream # "none" => tr.exists /\ tr.ended

\* C13 as stated: once all the input has been resampled without error the
\* output duration differs from the input duration by less than 10 ms, with
\* duration = bytes / (rate * 2 * channels):
\*   100 * |out * inRate - in * outRate| < inRate * outRate * 2 * channels.
C13_AsStated ==
    \A i \in Inst :
        (variant # "native2" /\ inst[i].exists /\ fin[i].allOk /\ Quiescent(i)
            /\ fin[i].err = "ok") =>
            LET st == speexStates[inst[i]._resamplerPtr]
            IN  100 * Abs(fin[i].sumOut * st.in_rate - InputBytes(i) * st.out_rate)
                    < st.in_rate * st.out_rate * BYTES_PER_ELEMENT * st.nb_channels

\* Exactly one processChunk call was made on the native resampler of
\* instance i, on its own, and it has returned a Buffer.
SingleNativeCall(i) ==
    /\ variant = "native" /\ stream = "none"
    /\ inst[i].exists
    /\ ncalls = 1
    /\ fin[i].err = "ok"

OneCall(r, n) ==
    processBody(Bundle(WasmConstructor(r.channels, r.inRate, r.outRate, Num(r.quality)),
                       EmptyHeap, <<>>), n).out

\* C15 as stated: frame-aligned chunks passed in order to one WASM instance
\* return, together, what one call with their concatenation returns (here:
\* as many bytes).
C15_AsStated ==
    \A i \in Inst :
        (IsWasm /\ stream = "none" /\ inst[i].exists /\ fin[i].allOk
            /\ fin[i].err = "ok" /\ Quiescent(i)) =>
            fin[i].sumOut = OneCall(inst[i], fin[i].sumIn)

\* The data a Buffer holds now.
Contents(b) ==
    IF b.backing = "own" \/ b.len = 0
    THEN b.data
    ELSE IF b.ptr \in DOMAIN heap THEN heap[b.ptr].data ELSE 0 - 1

\* C16: every Buffer processChunk has returned has memory of its own, not
\* the WASM heap or the input chunk, and still holds the data it was
\* returned with, whatever calls were made since.
C16_IndependentCopy ==
    \A i \in Inst : \A k \in 1 .. Len(fin[i].bufs) :
        /\ fin[i].bufs[k].backing = "own"
        /\ Contents(fin[i].bufs[k]) = fin[i].bufs[k].data

\* Two non-empty Buffers were returned from the same scratch block of the
\* WASM heap, which the second call overwrote.
C16_Witness ==
    \E i \in Inst :
        /\ IsWasm
        /\ Len(fin[i].bufs) = 2
        /\ fin[i].bufs[1].len > 0
        /\ fin[i].bufs[2].len > 0
        /\ fin[i].bufs[1].data # fin[i].bufs[2].data
        /\ heap[inst[i]._outBufferPtr].data = fin[i].bufs[2].data

\* C17: while the load promise of the WASM module has not resolved no
\* function of the module runs (nothing is allocated, freed, initialised or
\* resampled); a call of the sync processChunk made then fails with the
\* "wait for initPromise" error and leaves the instance as it was, and a
\* call of the async processChunk stays suspended.
C17_LoadFirst ==
    [][(IsWasm /\ moduleState # "loaded") =>
          /\ heap' = heap
          /\ speexStates' = speexStates
          /\ \A i \in Inst, n \in Lens :
                ProcessChunkSync(i, n) => ret'[i] = "NotLoadedError" /\ inst' = inst
          /\ \A i \in Inst :
                moduleState = "loading" => Len(pending'[i]) >= Len(pending[i])]_vars

\* The sync processChunk was called before the load and refused; the async
\* processChunk was called before the load and waits.
C17_Witness ==
    \E i \in Inst :
        /\ moduleState = "loading"
        /\ inst[i].exists
        /\ inst[i]._resamplerPtr = 0
        /\ \/ variant = "wasmSync" /\ ret[i] = "NotLoadedError"
           \/ variant = "wasmAsync" /\ pending[i] # <<>>

\* C18 as stated: a _transform call invokes its callback at most once, so
\* never with a result and then with an error.
C18_AsStated == (tr.exists /\ variant # "native2") => tr.ncb <= 1

Outputs(log) == [k \in 1 .. Len(log) |-> [err |-> log[k].err, out |-> log[k].out]]

NoOverlap(log) == \A k \in 1 .. Len(log) : ~log[k].overlapped

\* What a WASM instance carries from one call to the next.
Carried(r, ss) ==
    [_processing |-> r._processing,
     _inBufferSize |-> r._inBufferSize,
     _outBufferSize |-> r._outBufferSize,
     st |-> IF r._resamplerPtr = 0 THEN <<>> ELSE <<ss[r._resamplerPtr]>>]

\* The calls of a log made on the WASM instance of bundle m when it is the
\* only instance of the process: the outputs and what the instance carries.
RECURSIVE AloneWasm(_, _, _)
AloneWasm(m, log, outs) ==
    IF log = <<>>
    THEN [outs |-> outs, carried |-> Carried(m.r, m.states)]
    ELSE LET e == Head(log)
             a == asyncEntry(m.r, e.n)
             b == CASE variant = "wasmSync" ->
                          syncCall(Bundle(m.r, m.heap, m.states), e.n, e.load)
                    [] variant # "wasmSync" /\ a.ret = "accepted" ->
                          asyncResume(Bundle(a.r, m.heap, m.states), e.n, e.load)
                    [] OTHER -> [Bundle(m.r, m.heap, m.states) EXCEPT !.err = a.ret]
         IN  AloneWasm(b, Tail(log), Append(outs, [err |-> b.err, out |-> b.out]))

\* The same for the native instance r on the state st.
RECURSIVE AloneNative(_, _, _, _)
AloneNative(r, st, log, outs) ==
    IF log = <<>>
    THEN [outs |-> outs, carried |-> st]
    ELSE LET e == Head(log)
             x == Execute(resampleChunk("alone", r._resamplerPtr, st, e.n, r.channels), st)
         IN  IF nativeEntry(r, e.n) # "accepted"
             THEN AloneNative(r, st, Tail(log),
                              Append(outs, [err |-> nativeEntry(r, e.n), out |-> 0]))
             ELSE AloneNative(r, x.st, Tail(log),
                              Append(outs, [err |-> x.w.err,
                                            out |-> x.w.outSize * BYTES_PER_ELEMENT]))

\* Instance i replayed alone from its construction on the calls of log.
AloneOn(i, log) ==
    IF IsWasm
    THEN AloneWasm(Bundle(WasmConstructor(inst[i].channels, inst[i].inRate,
                                          inst[i].outRate, Num(inst[i].quality)),
                          EmptyHeap, <<>>),
                   log, <<>>)
    ELSE LET st == speexStates[inst[i]._resamplerPtr]
         IN  AloneNative(inst[i],
                         speex_new_state(st.nb_channels, st.in_rate, st.out_rate,
                                         st.quality),
                         log, <<>>)

\* Instance i replayed alone on the calls it ran.
Alone(i) == AloneOn(i, fin[i].log)

\* What instance i carries now, once none of its calls is running.
CarriedNow(i) ==
    IF IsWasm
    THEN Carried(inst[i], speexStates)
    ELSE speexStates[inst[i]._resamplerPtr]

InFlight(i) ==
    \/ pending[i] # <<>>
    \/ \E x \in DOMAIN workers : workers[x].inst = i

\* C20: two distinct instances do not interfere.  For every interleaving of
\* the calls on the two instances, the errors and byte counts of the calls
\* an instance ran are the ones it produces when it is replayed alone on the
\* same chunks, what it carries to its next call is what it carries alone,
\* and a call is rejected as overlapping only when the instance itself had
\* a call accepted before: never because of a call in flight on the other.
C20_NoInterference ==
    \A i \in Pair :
        /\ (inst[i].exists /\ NoOverlap(fin[i].log)) =>
               /\ Outputs(fin[i].log) = Alone(i).outs
               /\ ~InFlight(i) => CarriedNow(i) = Alone(i).carried
        /\ ret[i] = "ConcurrencyError" => (pending[i] # <<>> \/ fin[i].log # <<>>)

\* A call on one instance was accepted and returned samples while a call
\* on the other instance was in flight.
C20_Witness ==
    \E i \in Pair, j \in Pair :
        /\ i # j
        /\ ret[i] = "accepted"
        /\ fin[i].err = "ok" /\ fin[i].out > 0
        /\ InFlight(j)
        /\ ncalls = MaxCalls

\* C21 as stated: a processChunk call rejected as overlapping changes no
\* field of the instance and makes no native call, and the call in flight
\* then completes with the output it produces when the rejected call is
\* never made and clears the busy flag itself.
C21_AsStated ==
    [][\A i \in Inst :
          /\ (ncalls' # ncalls /\ ret'[i] = "ConcurrencyError") =>
                 /\ inst'[i] = inst[i]
                 /\ heap' = heap
                 /\ speexStates' = speexStates
                 /\ pending'[i] = pending[i]
                 /\ fin'[i] = fin[i]
          /\ (/\ variant = "wasmAsync"
              /\ ret[i] = "ConcurrencyError"
              /\ Len(pending'[i]) < Len(pending[i])) =>
                 /\ Outputs(fin'[i].log) =
                       AloneOn(i, Append(fin[i].log,
                                         [n |-> Head(pending[i]),
                                          load |-> moduleState])).outs
                 /\ ~inst'[i]._processing]_vars

\* The buffer a copy-based _transform aligns when it is handed chunk: the
\* stored remainder followed by the chunk.
BeingAligned(t, chunk) ==
    IF Positive(t._alignementBufferLength)
    THEN SubSeq(t._alignementBuffer, 1, t._alignementBufferLength) \o chunk
    ELSE chunk

\* the last k elements of a sequence
Last(s, k) == SubSeq(s, Len(s) - k + 1, Len(s))

\* C22 as stated: in the copy-based transforms, whenever _transform finds
\* extraneousBytesCount > 0, afterwards the first _alignementBufferLength
\* bytes of _alignementBuffer are the last extraneousBytesCount bytes of the
\* buffer being aligned.
C22_AsStated ==
    [][(stream = "copy" /\ tr.channels >= 1 /\ Len(passed') > Len(passed)) =>
          LET c0 == BeingAligned(tr, NextBytes(written' - written))
              extraneousBytesCount == Len(c0) % (tr.channels * BYTES_PER_ELEMENT)
          IN  extraneousBytesCount > 0 =>
                 /\ tr'._alignementBufferLength = extraneousBytesCount
                 /\ SubSeq(tr'._alignementBuffer, 1, tr'._alignementBufferLength)
                       = Last(c0, extraneousBytesCount)]_vars

\* C23 as stated: when the processChunk call of a _transform call fails
\* (here: it is rejected at once, or it is suspended on a module load that
\* has failed or on its way to a lazy initialisation that the engine
\* rejects), the alignment state of the transform is what it was before
\* that _transform call.  Nothing between the call and its callback touches
\* the alignment state, so this is a property of the _transform step.
C23_AsStated ==
    [][\A i \in Inst :
          (/\ variant = "wasmAsync"
           /\ stream \in {"slice", "copy"}
           /\ tr.channels >= 1
           /\ Len(passed') > Len(passed)
           /\ \/ moduleState = "failed"
              \/ ret'[i] # "accepted"
              \/ speex_init_err(inst[i].channels, inst[i].inRate,
                                inst[i].outRate, inst[i].quality)
                     # RESAMPLER_ERR_SUCCESS) =>
              /\ tr'._alignementBuffer = tr._alignementBuffer
              /\ tr'._alignementBufferLength = tr._alignementBufferLength]_vars

\* the calls of a log that succeeded
Succeeded(log) == {k \in 1 .. Len(log) : log[k].err = "ok"}

\* C24: on a WASM instance the native resampler is initialised exactly once,
\* in the first call that succeeds: speex_resampler_init has produced one
\* state, its handle is the one the instance holds, the handle never
\* changes once set, and the state a call leaves behind is the state the
\* next call works on (what the instance carries equals what the replay of
\* its calls from a fresh state carries).
C24_InitOnce ==
    \A i \in Inst :
        IsWasm =>
            /\ Len(speexStates) <= 1
            /\ inst[i]._resamplerPtr = Len(speexStates)
            /\ Succeeded(fin[i].log) # {} => inst[i]._resamplerPtr = 1
            /\ (inst[i].exists /\ pending[i] = <<>>) =>
                   CarriedNow(i).st = Alone(i).carried.st

\* Two calls have succeeded on a WASM instance, samples were returned, and
\* the instance holds the handle of the one state that was initialised.
C24_Witness ==
    \E i \in Inst :
        /\ IsWasm
        /\ Cardinality(Succeeded(fin[i].log)) >= 2
        /\ fin[i].sumOut > 0
        /\ inst[i]._resamplerPtr = 1

CallsInFlight(i) ==
    Len(pending[i]) + Cardinality({x \in DOMAIN workers : workers[x].inst = i})

\* C26: SpeexResamplerTransform hands chunks to the resampler one at a time
\* and in write order: no call is made while an earlier one from the same
\* stream is in flight, the 'one chunk at a time' error never occurs on the
\* stream path, and the calls settle in the order the chunks were handed.
C26_AsStated ==
    \A i \in Inst :
        stream # "none" =>
            /\ CallsInFlight(i) <= 1
            /\ ret[i] # "ConcurrencyError"
            /\ variant # "native2" =>
                  \A k \in 1 .. Len(fin[i].log) :
                      k <= Len(passed) /\ fin[i].log[k].n = Len(passed[k])

\* the call that settled last in log
LastCall(log) == log[Len(log)]

\* instance i has just made a native call: a call settled in this step and
\* it got past the lazy initialisation and the two resizes
NativeCallMade(i) ==
    /\ IsWasm
    /\ Len(fin'[i].log) = Len(fin[i].log) + 1
    /\ LastCall(fin'[i].log).err \in {"ok", "ProcessError"}

\* C27: in the WASM binding the capacity written to _outLengthPtr, times
\* channels * 2, never exceeds _outBufferSize; _outBufferSize is at least
\* ceil(chunk.length * outRate / inRate) at every native call; the bytes
\* returned lie inside the live output scratch allocation.
C27_OutputInsideScratch ==
    [][\A i \in Inst :
          NativeCallMade(i) =>
              LET r == inst'[i]
                  n == LastCall(fin'[i].log).n
                  capacity == r._outBufferSize \div (r.channels * BYTES_PER_ELEMENT)
              IN  /\ capacity * r.channels * BYTES_PER_ELEMENT <= r._outBufferSize
                  /\ r._outBufferSize >= Ceil(n * r.outRate, r.inRate)
                  /\ r._outBufferPtr \in DOMAIN heap'
                  /\ heap'[r._outBufferPtr].size = r._outBufferSize
                  /\ LastCall(fin'[i].log).out <= r._outBufferSize]_vars

\* two calls succeeded, the second on a longer chunk, so that the output
\* buffer was reallocated, and bytes were returned
C27_Witness ==
    /\ IsWasm
    /\ \E i \in Inst :
          /\ Len(fin[i].log) = 2
          /\ fin[i].log[1].err = "ok" /\ fin[i].log[2].err = "ok"
          /\ fin[i].log[1].n < fin[i].log[2].n
          /\ fin[i].log[1].out > 0 /\ fin[i].log[2].out > fin[i].log[1].out
          /\ inst[i]._outBufferSize > 0

\* C28: in the WASM binding, whenever a chunk is copied into WASM memory,
\* _inBufferPtr is a live allocation of _inBufferSize bytes and
\* _inBufferSize >= chunk.length; _inBufferSize and _outBufferSize never
\* decrease over the life of an instance.
C28_InputFitsScratch ==
    [][\A i \in Inst :
          /\ NativeCallMade(i) =>
                /\ inst'[i]._inBufferPtr \in DOMAIN heap'
                /\ heap'[inst'[i]._inBufferPtr].size = inst'[i]._inBufferSize
                /\ inst'[i]._inBufferSize >= LastCall(fin'[i].log).n
          /\ (IsWasm /\ inst[i].exists) =>
                /\ inst'[i]._inBufferSize >= inst[i]._inBufferSize
                /\ inst'[i]._outBufferSize >= inst[i]._outBufferSize]_vars

\* the input buffer was reallocated for a longer second chunk, and a third
\* block of the heap is the output buffer
C28_Witness ==
    /\ IsWasm
    /\ \E i \in Inst :
          /\ Len(fin[i].log) = 2
          /\ fin[i].log[1].err = "ok" /\ fin[i].log[2].err = "ok"
          /\ fin[i].log[1].n > 0
          /\ fin[i].log[1].n < fin[i].log[2].n
          /\ inst[i]._inBufferSize = fin[i].log[2].n
          /\ inst[i]._inBufferPtr \in DOMAIN heap

\* the scratch buffers of r are large enough for a chunk of n bytes
ScratchSuffices(r, n) ==
    /\ n <= r._inBufferSize
    /\ Ceil(n * r.outRate, r.inRate) <= r._outBufferSize

\* the sizes of the live blocks of heap h
BlockSizes(h) == [a \in DOMAIN h |-> h[a].size]

\* C29: a processChunk call whose chunk.length is at most _inBufferSize and
\* whose ceil(chunk.length * outRate / inRate) is at most _outBufferSize
\* allocates and frees nothing and leaves _inBufferPtr, _inBufferSize,
\* _outBufferPtr and _outBufferSize unchanged.
C29_NoReallocation ==
    [][\A i \in Inst :
          ( /\ IsWasm
            /\ Len(fin'[i].log) = Len(fin[i].log) + 1
            /\ ScratchSuffices(inst[i], LastCall(fin'[i].log).n) ) =>
              /\ BlockSizes(heap') = BlockSizes(heap)
              /\ inst'[i]._inBufferPtr = inst[i]._inBufferPtr
              /\ inst'[i]._inBufferSize = inst[i]._inBufferSize
              /\ inst'[i]._outBufferPtr = inst[i]._outBufferPtr
              /\ inst'[i]._outBufferSize = inst[i]._outBufferSize]_vars

\* a second call succeeded on a chunk shorter than the first, with both
\* scratch buffers still those of the first call
C29_Witness ==
    /\ IsWasm
    /\ \E i \in Inst :
          /\ Len(fin[i].log) = 2
          /\ fin[i].log[1].err = "ok" /\ fin[i].log[2].err = "ok"
          /\ fin[i].log[2].n > 0
          /\ fin[i].log[2].n < fin[i].log[1].n
          /\ inst[i]._inBufferSize = fin[i].log[1].n
          /\ inst[i]._outBufferSize >= 0

\* the addresses instance r refers to through its fields
Referenced(r) ==
    {r._inBufferPtr, r._outBufferPtr, r._inLengthPtr, r._outLengthPtr}

\* C30: in the WASM binding every heap allocation made by an instance has
\* been freed or is still referenced by one of _inBufferPtr, _outBufferPtr,
\* _inLengthPtr and _outLengthPtr: processChunk leaks nothing.
C30_AsStated ==
    IsWasm => \A a \in DOMAIN heap : \E i \in Inst : a \in Referenced(inst[i])

\* C31: the byte length of every buffer processChunk returns is a multiple
\* of channels * 2 and equals the per-channel sample count the native
\* resampler reported written times channels * 2.
C31_WholeFrames ==
    \A i \in Inst :
        (inst[i].exists /\ variant # "native2") =>
            \A k \in Succeeded(fin[i].log) :
                /\ fin[i].log[k].out % (inst[i].channels * BYTES_PER_ELEMENT) = 0
                /\ fin[i].log[k].out =
                       fin[i].log[k].frames * inst[i].channels * BYTES_PER_ELEMENT

\* a stereo call returned at least one frame
C31_Witness ==
    \E i \in Inst :
        /\ inst[i].exists /\ variant # "native2"
        /\ inst[i].channels = 2
        /\ \E k \in Succeeded(fin[i].log) :
              fin[i].log[k].frames >= 1 /\ fin[i].log[k].out >= 4

\* the length of the remainder transform t has stored
RemainderLength(t) ==
    IF stream = "slice" THEN Len(t._alignementBuffer) ELSE t._alignementBufferLength

\* C32: after every _transform call the stored alignment remainder is
\* shorter than one frame: its length is in 0 .. channels * 2 - 1 and equals
\* the total of the bytes written to the stream so far modulo channels * 2.
C32_AsStated ==
    (stream \in {"slice", "copy"} /\ tr.exists /\ Len(passed) > 0) =>
        /\ RemainderLength(tr) >= 0
        /\ RemainderLength(tr) <= tr.channels * BYTES_PER_ELEMENT - 1
        /\ RemainderLength(tr) = written % (tr.channels * BYTES_PER_ELEMENT)

\* the pending bytes of a _transform call of the slice-based transform: the
\* stored remainder followed by the new chunk
PendingBytes(t, chunk) == t._alignementBuffer \o chunk

\* C33 as stated: when the pending bytes of a _transform call amount to
\* less than one frame, _transform passes a zero-length buffer to
\* processChunk, that call succeeds with zero output bytes, and all pending
\* bytes are kept as the remainder for the next call.  The first conjunct
\* is the _transform step, the second the step in which that call settles:
\* on the stream path a zero-length call is a call of this kind.
C33_AsStated ==
    [][\A i \in Inst :
          (variant = "wasmAsync" /\ stream = "slice" /\ tr.channels >= 1) =>
              /\ Len(passed') > Len(passed) =>
                    LET pendingBytes == PendingBytes(tr, NextBytes(written' - written))
                    IN  Len(pendingBytes) < tr.channels * BYTES_PER_ELEMENT =>
                           /\ passed'[Len(passed')] = <<>>
                           /\ tr'._alignementBuffer = pendingBytes
                           /\ ret'[i] = "accepted"
              /\ ( /\ Len(fin'[i].log) = Len(fin[i].log) + 1
                   /\ LastCall(fin'[i].log).n = 0 ) =>
                    /\ LastCall(fin'[i].log).err = "ok"
                    /\ LastCall(fin'[i].log).out = 0]_vars

\* the configuration a binding object r holds
BindingConfig(r) == <<r.channels, r.inRate, r.outRate, r.quality>>

\* the configuration SpeexResamplerState st was initialised with
NativeConfig(st) == <<st.nb_channels, st.in_rate, st.out_rate, st.quality>>

\* C34: on every processChunk call the channel count and the rates the
\* binding uses for the alignment check, the input sample count and the
\* output sizing are those the native resampler was initialised with, and
\* neither side's configuration changes after construction.  In the WASM
\* bindings the object holds all four values; in the native binding it
\* holds the channel count, and the worker of a call takes the channel
\* count from the object and the rates from the state.
C34_ConfigAgrees ==
    [][\A i \in Inst :
          /\ inst[i].exists => BindingConfig(inst'[i]) = BindingConfig(inst[i])
          /\ \A k \in 1 .. Len(speexStates) :
                NativeConfig(speexStates'[k]) = NativeConfig(speexStates[k])
          /\ (IsWasm /\ inst'[i]._resamplerPtr # 0) =>
                NativeConfig(speexStates'[inst'[i]._resamplerPtr])
                    = BindingConfig(inst'[i])
          /\ (variant = "native" /\ inst'[i].exists) =>
                LET st == speexStates'[inst'[i]._resamplerPtr]
                IN  /\ st.nb_channels = inst'[i].channels
                    /\ \A x \in DOMAIN workers' :
                          workers'[x].inst = i =>
                              /\ workers'[x].resampler = inst'[i]._resamplerPtr
                              /\ workers'[x].channels = st.nb_channels
                              /\ workers'[x].phase = "queued" =>
                                    workers'[x].outSize =
                                        (st.out_rate * workers'[x].inBufferLength)
                                            \div st.in_rate]_vars

\* a stereo WASM instance halving the rate has run two calls on its state
C34_Witness ==
    /\ IsWasm
    /\ \E i \in Inst :
          /\ inst[i]._resamplerPtr # 0
          /\ inst[i].channels = 2 /\ inst[i].inRate = 2 /\ inst[i].outRate = 1
          /\ speexStates[inst[i]._resamplerPtr].in_rate = 2
          /\ Len(fin[i].log) = 2
          /\ Succeeded(fin[i].log) = {1, 2}

====
